---- MODULE Spec2Model ----
(***************************************************************************)
(* A model of src/src/sat.py: the CNF satisfiability engine SatSolver.     *)
(* The literal/clause predicates are operators computed as the code        *)
(* computes them (scan order, early returns, flags); sat_bruteforce is an  *)
(* iteration over itertools.product; sat_backtracking is the recursive dfs *)
(* closure made explicit as a stack of frames, one per dfs invocation.     *)
(***************************************************************************)
EXTENDS Integers, Sequences, FiniteSets, TLC

\* Bound of the formulas the solver is called on: the size of a formula is
\* n_vars + the number of its clauses + the number of its literal occurrences.
MaxSize ==
    8

VARIABLES
    n_vars,        \* argument n_vars of the running (or last) call
    clauses,       \* argument clauses: a sequence of sequences of integers
    pc,            \* "idle" | "dfs" | "ret" | "bf"
    call,          \* "none" | "first" | "second": which call on the solver object
    method,        \* "none" | "backtracking" | "bruteforce"
    A,             \* the local dict A of the running call (partial assignment)
    solved_model,  \* the nonlocal solved_model of sat_backtracking
    stack,         \* the dfs invocations in progress, innermost last
    retval,        \* the boolean the last finished dfs invocation returned
    idx,           \* position of the for loop in itertools.product (1-based)
    results,       \* the (method, satisfiable, model) tuples returned so far
    visited        \* history: the assignments at which dfs has been entered

vars ==
    << n_vars, clauses, pc, call, method, A, solved_model, stack, retval,
       idx, results, visited >>

-----------------------------------------------------------------------------
\* Python values and dict operations.

abs(x) ==
    IF x < 0 THEN -x ELSE x

\* {} : the empty dict
EmptyDict ==
    << >>

\* A[v] = b
DictSet(D, v, b) ==
    [u \in (DOMAIN D) \cup {v} |-> IF u = v THEN b ELSE D[u]]

\* del A[v]
DictDel(D, v) ==
    [u \in (DOMAIN D) \ {v} |-> D[u]]

-----------------------------------------------------------------------------
\* The helpers of SatSolver.

\* literal_true with the polarity test dropped (returns the variable's value)
literal_true_unsigned(lit, D) ==
    LET v == abs(lit)
    IN  IF v \notin DOMAIN D THEN FALSE ELSE D[v]

literal_true(lit, D) ==
    LET v == abs(lit)
    IN  IF v \notin DOMAIN D
        THEN FALSE
        ELSE (lit > 0 /\ D[v]) \/ (lit < 0 /\ ~D[v])

RECURSIVE clause_satisfied_from(_, _, _)
clause_satisfied_from(clause, D, i) ==
    IF i > Len(clause) THEN FALSE
    ELSE IF literal_true(clause[i], D) THEN TRUE
    ELSE clause_satisfied_from(clause, D, i + 1)

\* clause_satisfied written as "all literals true" (vacuous on the empty clause)
clause_satisfied_vacuous(clause, D) ==
    \A i \in 1..Len(clause) : literal_true(clause[i], D)

clause_satisfied(clause, D) ==
    clause_satisfied_from(clause, D, 1)

RECURSIVE clause_impossible_from(_, _, _, _)
clause_impossible_from(clause, D, i, has_unassigned) ==
    IF i > Len(clause) THEN ~has_unassigned
    ELSE IF abs(clause[i]) \notin DOMAIN D
         THEN clause_impossible_from(clause, D, i + 1, TRUE)
    ELSE IF literal_true(clause[i], D) THEN FALSE
    ELSE clause_impossible_from(clause, D, i + 1, has_unassigned)

\* clause_impossible without the has_unassigned flag (returns True at loop end)
clause_impossible_eager(clause, D) ==
    ~clause_satisfied(clause, D)

\* clause_impossible answering False for a clause without literals
clause_impossible_nonempty(clause, D) ==
    Len(clause) > 0 /\ clause_impossible_from(clause, D, 1, FALSE)

clause_impossible(clause, D) ==
    clause_impossible_from(clause, D, 1, FALSE)

-----------------------------------------------------------------------------
\* The closures of sat_backtracking.

RECURSIVE tri_state_from(_, _, _, _)
tri_state_from(cs, D, i, all_true) ==
    IF i > Len(cs) THEN (IF all_true THEN "yes" ELSE "maybe")
    ELSE IF clause_satisfied(cs[i], D) THEN tri_state_from(cs, D, i + 1, all_true)
    ELSE IF clause_impossible(cs[i], D) THEN "no"
    ELSE tri_state_from(cs, D, i + 1, FALSE)

\* tri_state without the clause_impossible test
tri_state_no_prune(cs, D) ==
    IF \A i \in 1..Len(cs) : clause_satisfied(cs[i], D) THEN "yes" ELSE "maybe"

\* tri_state with all_true initialised to False
tri_state_pessimistic(cs, D) ==
    tri_state_from(cs, D, 1, FALSE)

tri_state(cs, D) ==
    tri_state_from(cs, D, 1, TRUE)

RECURSIVE pick_unassigned_from(_, _, _)
pick_unassigned_from(n, D, v) ==
    IF v > n THEN 0
    ELSE IF v \notin DOMAIN D THEN v
    ELSE pick_unassigned_from(n, D, v + 1)

\* pick_unassigned looping over range(1, n_vars)
pick_unassigned_short(n, D) ==
    pick_unassigned_from(n - 1, D, 1)

\* pick_unassigned looping from n_vars down to 1
pick_unassigned_highest(n, D) ==
    IF (1..n) \ (DOMAIN D) = {} THEN 0
    ELSE CHOOSE v \in (1..n) \ (DOMAIN D) : \A u \in (1..n) \ (DOMAIN D) : u <= v

pick_unassigned(n, D) ==
    pick_unassigned_from(n, D, 1)

\* The value dfs assigns on its first branch (A[v] = True) and on its second
\* branch (A[v] = False).
BranchValueSwapped(branch) ==
    branch # "first"

\* "A[v] = True" on both branches
BranchValueAlwaysTrue(branch) ==
    TRUE

BranchValue(branch) ==
    branch = "first"

\* One dfs invocation: the assignment it was entered with, the variable it
\* branched on (0 before pick_unassigned) and the branch it is waiting for.
Frame(D) ==
    [entry |-> D, v |-> 0, branch |-> "none"]

Top ==
    stack[Len(stack)]

Pop(s) ==
    SubSeq(s, 1, Len(s) - 1)

-----------------------------------------------------------------------------
\* itertools.product([False, True], repeat=n): the n-tuples over the pool in
\* odometer order, the rightmost position advancing on every step.

Pool ==
    << FALSE, TRUE >>

\* the number of tuples the product yields
ProductLen(n) ==
    Len(Pool) ^ n

\* a product in which the leftmost position advances on every step
ProductAtReversed(n, k) ==
    [i \in 1..n |-> Pool[(((k - 1) \div (Len(Pool) ^ (i - 1))) % Len(Pool)) + 1]]

\* the k-th tuple the product yields (k = 1 is the first)
ProductAt(n, k) ==
    [i \in 1..n |-> Pool[(((k - 1) \div (Len(Pool) ^ (n - i))) % Len(Pool)) + 1]]

\* the dict comprehension with range(n_vars - 1)
BitsDictShort(bits, n) ==
    [v \in 1..(n - 1) |-> bits[v]]

\* A = {i+1: bits[i] for i in range(n_vars)}   (bits is 0-based in the code)
BitsDict(bits, n) ==
    [v \in 1..n |-> bits[v]]

RECURSIVE all_clauses_ok_from(_, _, _)
all_clauses_ok_from(cs, D, i) ==
    IF i > Len(cs) THEN TRUE
    ELSE IF ~clause_satisfied(cs[i], D) THEN FALSE
    ELSE all_clauses_ok_from(cs, D, i + 1)

\* the inner for loop left after its first clause
all_clauses_ok_first_only(cs, D) ==
    IF Len(cs) = 0 THEN TRUE ELSE clause_satisfied(cs[1], D)

\* the flag ok after the inner for loop of sat_bruteforce
all_clauses_ok(cs, D) ==
    all_clauses_ok_from(cs, D, 1)

\* "return False, A"
FailModelStale(D) ==
    D

\* the model of the final "return False, {}" of either strategy
FailModel(D) ==
    EmptyDict

-----------------------------------------------------------------------------
\* The formulas the caller may pass: well-formed (every literal non-zero with
\* absolute value in 1..n_vars, the caller's precondition) and of bounded size.

Lits(n) ==
    { l \in (-n)..n : l # 0 }

ClausesUpTo(n, m) ==
    UNION { [1..j -> Lits(n)] : j \in 0..m }

RECURSIVE FormulasUpTo(_, _)
FormulasUpTo(n, b) ==
    IF b <= 0 THEN { << >> }
    ELSE { << >> } \cup
         UNION { { << c >> \o f : f \in FormulasUpTo(n, b - 1 - Len(c)) } :
                 c \in ClausesUpTo(n, b - 1) }

Init ==
    /\ n_vars \in 0..MaxSize
    /\ clauses \in FormulasUpTo(n_vars, MaxSize - n_vars)
    /\ pc = "idle"
    /\ call = "none"
    /\ method = "none"
    /\ A = EmptyDict
    /\ solved_model = EmptyDict
    /\ stack = << >>
    /\ retval = FALSE
    /\ idx = 0
    /\ results = << >>
    /\ visited = {}

NextCall ==
    IF call = "none" THEN "first" ELSE "second"

Return(sat, model) ==
    /\ results' = Append(results, [method |-> method, satisfiable |-> sat, model |-> model])
    /\ pc' = "idle"

-----------------------------------------------------------------------------
\* sat_backtracking

\* sat_backtracking with A kept from the previous call instead of A = {}
sat_backtracking_stale ==
    /\ pc = "idle"
    /\ call # "second"
    /\ call' = NextCall
    /\ method' = "backtracking"
    /\ solved_model' = EmptyDict
    /\ stack' = << Frame(A) >>
    /\ visited' = {}
    /\ pc' = "dfs"
    /\ UNCHANGED << n_vars, clauses, A, retval, idx, results >>

\* lines 96-100, 152: the call, its fresh locals, and the entry into dfs()
sat_backtracking ==
    /\ pc = "idle"
    /\ call # "second"
    /\ call' = NextCall
    /\ method' = "backtracking"
    /\ A' = EmptyDict
    /\ solved_model' = EmptyDict
    /\ stack' = << Frame(EmptyDict) >>
    /\ visited' = {}
    /\ pc' = "dfs"
    /\ UNCHANGED << n_vars, clauses, retval, idx, results >>

\* lines 129-132: state == "yes"
dfs_yes ==
    /\ pc = "dfs"
    /\ tri_state(clauses, A) = "yes"
    /\ solved_model' = A
    /\ retval' = TRUE
    /\ stack' = Pop(stack)
    /\ visited' = visited \cup {A}
    /\ pc' = "ret"
    /\ UNCHANGED << n_vars, clauses, call, method, A, idx, results >>

\* the pruned leaf undoing its caller's assignment before it returns
dfs_no_undo ==
    /\ pc = "dfs"
    /\ tri_state(clauses, A) = "no"
    /\ retval' = FALSE
    /\ stack' = Pop(stack)
    /\ visited' = visited \cup {A}
    /\ pc' = "ret"
    /\ A' = IF Len(stack) > 1 THEN DictDel(A, stack[Len(stack) - 1].v) ELSE A
    /\ UNCHANGED << n_vars, clauses, call, method, solved_model, idx, results >>

\* lines 133-134: state == "no"
dfs_no ==
    /\ pc = "dfs"
    /\ tri_state(clauses, A) = "no"
    /\ retval' = FALSE
    /\ stack' = Pop(stack)
    /\ visited' = visited \cup {A}
    /\ pc' = "ret"
    /\ UNCHANGED << n_vars, clauses, call, method, A, solved_model, idx, results >>

\* lines 136-142: state == "maybe": pick_unassigned(), then either the
\* defensive return False (v == 0) or A[v] = True and the first recursive dfs()
dfs_branch ==
    /\ pc = "dfs"
    /\ tri_state(clauses, A) = "maybe"
    /\ LET v == pick_unassigned(n_vars, A)
       IN  IF v = 0
           THEN /\ retval' = FALSE
                /\ stack' = Pop(stack)
                /\ pc' = "ret"
                /\ A' = A
           ELSE /\ A' = DictSet(A, v, BranchValue("first"))
                /\ stack' = Pop(stack) \o << [Top EXCEPT !.v = v, !.branch = "first"],
                                             Frame(DictSet(A, v, BranchValue("first"))) >>
                /\ pc' = "dfs"
                /\ retval' = retval
    /\ visited' = visited \cup {A}
    /\ UNCHANGED << n_vars, clauses, call, method, solved_model, idx, results >>

\* lines 142-143 and 145-146: a recursive dfs() returned True: return True
dfs_propagate ==
    /\ pc = "ret"
    /\ stack # << >>
    /\ retval = TRUE
    /\ stack' = Pop(stack)
    /\ UNCHANGED << n_vars, clauses, pc, call, method, A, solved_model, retval,
                    idx, results, visited >>

\* the second branch taken without recording that the first one is over
dfs_second_retry ==
    /\ pc = "ret"
    /\ stack # << >>
    /\ retval = FALSE
    /\ Top.branch = "first"
    /\ A' = DictSet(A, Top.v, BranchValue("second"))
    /\ stack' = Append(stack, Frame(DictSet(A, Top.v, BranchValue("second"))))
    /\ pc' = "dfs"
    /\ UNCHANGED << n_vars, clauses, call, method, solved_model, retval, idx,
                    results, visited >>

\* lines 142-145: the first dfs() returned False: A[v] = False and dfs() again
dfs_second ==
    /\ pc = "ret"
    /\ stack # << >>
    /\ retval = FALSE
    /\ Top.branch = "first"
    /\ A' = DictSet(A, Top.v, BranchValue("second"))
    /\ stack' = Pop(stack) \o << [Top EXCEPT !.branch = "second"],
                                 Frame(DictSet(A, Top.v, BranchValue("second"))) >>
    /\ pc' = "dfs"
    /\ UNCHANGED << n_vars, clauses, call, method, solved_model, retval, idx,
                    results, visited >>

\* the failure return without the "del A[v]"
dfs_backtrack_no_del ==
    /\ pc = "ret"
    /\ stack # << >>
    /\ retval = FALSE
    /\ Top.branch = "second"
    /\ stack' = Pop(stack)
    /\ UNCHANGED << n_vars, clauses, pc, call, method, A, solved_model, retval, idx,
                    results, visited >>

\* lines 145-150: the second dfs() returned False: del A[v]; return False
dfs_backtrack ==
    /\ pc = "ret"
    /\ stack # << >>
    /\ retval = FALSE
    /\ Top.branch = "second"
    /\ A' = DictDel(A, Top.v)
    /\ stack' = Pop(stack)
    /\ UNCHANGED << n_vars, clauses, pc, call, method, solved_model, retval, idx,
                    results, visited >>

\* lines 152-153: if dfs(): return True, solved_model
bt_return_true ==
    /\ pc = "ret"
    /\ stack = << >>
    /\ retval = TRUE
    /\ Return(TRUE, solved_model)
    /\ UNCHANGED << n_vars, clauses, call, method, A, solved_model, stack, retval,
                    idx, visited >>

\* line 155: return False, {}
bt_return_false ==
    /\ pc = "ret"
    /\ stack = << >>
    /\ retval = FALSE
    /\ Return(FALSE, FailModel(A))
    /\ UNCHANGED << n_vars, clauses, call, method, A, solved_model, stack, retval,
                    idx, visited >>

-----------------------------------------------------------------------------
\* sat_bruteforce

\* lines 157-161: the call and the start of the for loop over the product
sat_bruteforce ==
    /\ pc = "idle"
    /\ call # "second"
    /\ call' = NextCall
    /\ method' = "bruteforce"
    /\ A' = EmptyDict
    /\ idx' = 1
    /\ pc' = "bf"
    /\ UNCHANGED << n_vars, clauses, solved_model, stack, retval, results, visited >>

\* lines 161-170: one iteration that finds ok: return True, A
bf_found ==
    /\ pc = "bf"
    /\ idx <= ProductLen(n_vars)
    /\ LET D == BitsDict(ProductAt(n_vars, idx), n_vars)
       IN  /\ all_clauses_ok(clauses, D)
           /\ A' = D
           /\ Return(TRUE, D)
    /\ UNCHANGED << n_vars, clauses, call, method, solved_model, stack, retval,
                    idx, visited >>

\* lines 161-168: one iteration that ends with ok = False
bf_reject ==
    /\ pc = "bf"
    /\ idx <= ProductLen(n_vars)
    /\ LET D == BitsDict(ProductAt(n_vars, idx), n_vars)
       IN  /\ ~all_clauses_ok(clauses, D)
           /\ A' = D
    /\ idx' = idx + 1
    /\ UNCHANGED << n_vars, clauses, pc, call, method, solved_model, stack, retval,
                    results, visited >>

\* line 172: the product is exhausted: return False, {}
bf_exhausted ==
    /\ pc = "bf"
    /\ idx > ProductLen(n_vars)
    /\ Return(FALSE, FailModel(A))
    /\ UNCHANGED << n_vars, clauses, call, method, A, solved_model, stack, retval,
                    idx, visited >>

-----------------------------------------------------------------------------

Step ==
    \/ dfs_yes
    \/ dfs_no
    \/ dfs_branch
    \/ dfs_propagate
    \/ dfs_second
    \/ dfs_backtrack
    \/ bt_return_true
    \/ bt_return_false
    \/ bf_found
    \/ bf_reject
    \/ bf_exhausted

Next ==
    \/ sat_backtracking
    \/ sat_bruteforce
    \/ Step

Spec ==
    Init /\ [][Next]_vars

\* A call, once made, runs to its return: the code is straight-line Python with
\* no suspension point. Whether the caller calls at all is not assumed.
FairSpec ==
    Spec /\ WF_vars(Step)

-----------------------------------------------------------------------------
\* clause_impossible on its own: one call of the helper on a clause of non-zero
\* literals over 1..n_vars and an arbitrary dict A with keys in 1..n_vars.

PartialAssignments(n) ==
    UNION { [S -> BOOLEAN] : S \in SUBSET (1..n) }

ImpossibleInit ==
    /\ n_vars \in 0..(MaxSize - 1)
    /\ clauses \in { << c >> : c \in ClausesUpTo(n_vars, MaxSize - n_vars - 1) }
    /\ A \in PartialAssignments(n_vars)
    /\ pc = "helper"
    /\ call = "none"
    /\ method = "none"
    /\ solved_model = EmptyDict
    /\ stack = << >>
    /\ retval = FALSE
    /\ idx = 0
    /\ results = << >>
    /\ visited = {}

\* lines 79-91: clause_impossible(clause, A) and its return value
clause_impossible_call ==
    /\ pc = "helper"
    /\ retval' = clause_impossible(clauses[1], A)
    /\ pc' = "helper_done"
    /\ UNCHANGED << n_vars, clauses, call, method, A, solved_model, stack, idx,
                    results, visited >>

ImpossibleNext ==
    clause_impossible_call

ImpossibleSpec ==
    ImpossibleInit /\ [][ImpossibleNext]_vars

-----------------------------------------------------------------------------
\* Propositional semantics, stated without the solver's helpers.

WellFormed ==
    /\ n_vars >= 0
    /\ \A i \in 1..Len(clauses) : \A j \in 1..Len(clauses[i]) :
           /\ clauses[i][j] # 0
           /\ abs(clauses[i][j]) \in 1..n_vars

TotalAssignments ==
    [1..n_vars -> BOOLEAN]

\* literal l holds under the (possibly partial) assignment M
Holds(l, M) ==
    /\ abs(l) \in DOMAIN M
    /\ IF l > 0 THEN M[l] ELSE ~M[-l]

\* every clause has a literal that holds under M
Satisfies(M) ==
    \A i \in 1..Len(clauses) : \E j \in 1..Len(clauses[i]) : Holds(clauses[i][j], M)

Satisfiable ==
    \E T \in TotalAssignments : Satisfies(T)

Extends(T, M) ==
    \A v \in DOMAIN M : v \in DOMAIN T /\ T[v] = M[v]

Returned(m) ==
    { i \in 1..Len(results) : results[i].method = m }

SatResults ==
    { i \in 1..Len(results) : results[i].satisfiable }

ExampleFormula ==
    /\ n_vars = 2
    /\ clauses = << << 1, 2 >>, << -1, -2 >> >>

-----------------------------------------------------------------------------
\* C1 (soundness): whenever either strategy returns satisfiable = true on a
\* well-formed formula, every clause has a literal that is true under the
\* returned model, and every total assignment over 1..n_vars that extends the
\* model satisfies every clause.
Soundness ==
    WellFormed =>
        \A i \in SatResults :
            /\ DOMAIN results[i].model \subseteq 1..n_vars
            /\ Satisfies(results[i].model)
            /\ \A T \in TotalAssignments :
                   Extends(T, results[i].model) => Satisfies(T)

\* both strategies have returned a model of a formula with a negative literal,
\* and the backtracking model is partial
SoundnessWitness ==
    /\ Len(clauses) >= 2
    /\ \E i \in 1..Len(clauses) : \E j \in 1..Len(clauses[i]) : clauses[i][j] < 0
    /\ \E i \in SatResults \cap Returned("bruteforce") : TRUE
    /\ \E i \in SatResults \cap Returned("backtracking") :
           DOMAIN results[i].model # 1..n_vars

\* C2 (agreement): on a well-formed formula every verdict either strategy
\* returns is true exactly when some total assignment over 1..n_vars satisfies
\* every clause; hence the two strategies return the same flag.
Agreement ==
    WellFormed =>
        /\ \A i \in 1..Len(results) : results[i].satisfiable = Satisfiable
        /\ \A i, j \in 1..Len(results) :
               results[i].satisfiable = results[j].satisfiable

\* both strategies have answered a satisfiable formula of at least two clauses
\* over at least two variables, with different models
AgreementWitness ==
    /\ n_vars >= 2
    /\ Len(clauses) >= 2
    /\ Len(results) = 2
    /\ results[1].method # results[2].method
    /\ results[1].satisfiable
    /\ results[1].model # results[2].model

LexLess(S, T) ==
    \E v \in 1..n_vars :
        /\ \A u \in 1..(v - 1) : S[u] = T[u]
        /\ ~S[v]
        /\ T[v]

\* C3 (brute-force witness order): a model sat_bruteforce returns is total,
\* satisfies the formula, and precedes every other satisfying total assignment
\* in the order with variable 1 most significant and false < true; on
\* n_vars = 2, clauses [[1,2],[-1,-2]] it returns (true, {1: False, 2: True}).
BruteforceOrder ==
    WellFormed =>
        \A i \in Returned("bruteforce") :
            /\ results[i].satisfiable =>
                   /\ results[i].model \in TotalAssignments
                   /\ Satisfies(results[i].model)
                   /\ \A T \in TotalAssignments :
                          (Satisfies(T) /\ T # results[i].model)
                              => LexLess(results[i].model, T)
            /\ ExampleFormula =>
                   /\ results[i].satisfiable
                   /\ results[i].model = << FALSE, TRUE >>

BruteforceOrderWitness ==
    /\ ExampleFormula
    /\ Returned("bruteforce") # {}

RECURSIVE PreorderFirst(_)
PreorderFirst(P) ==
    IF Satisfies(P) THEN << P >>
    ELSE IF Len(P) >= n_vars THEN << >>
    ELSE LET t == PreorderFirst(Append(P, TRUE))
         IN  IF t # << >> THEN t ELSE PreorderFirst(Append(P, FALSE))

\* C4 (backtracking witness order): a model sat_backtracking returns is the
\* assignment of the first node, in depth-first preorder of the tree of
\* assignments to 1..k (lowest variable first, true before false), at which
\* every clause has a true literal; on n_vars = 2, clauses [[1,2],[-1,-2]] it
\* returns (true, {1: True, 2: False}).
BacktrackingOrder ==
    WellFormed =>
        \A i \in Returned("backtracking") :
            /\ results[i].satisfiable =>
                   PreorderFirst(<< >>) = << results[i].model >>
            /\ ExampleFormula =>
                   /\ results[i].satisfiable
                   /\ results[i].model = << TRUE, FALSE >>

BacktrackingOrderWitness ==
    /\ ExampleFormula
    /\ Returned("backtracking") # {}

\* C5 (model totality) as claimed: whenever either strategy returns
\* satisfiable = true, the key set of the model is exactly 1..n_vars.
ModelTotal ==
    WellFormed =>
        \A i \in SatResults : DOMAIN results[i].model = 1..n_vars

\* C5 as amended: a model sat_bruteforce returns has key set exactly
\* 1..n_vars; a model sat_backtracking returns has key set 1..k for some
\* 0 <= k <= n_vars (dfs returns at the first node where every clause is
\* already satisfied, with the variables after k unassigned).
ModelKeys ==
    WellFormed =>
        /\ \A i \in SatResults \cap Returned("bruteforce") :
               DOMAIN results[i].model = 1..n_vars
        /\ \A i \in SatResults \cap Returned("backtracking") :
               \E k \in 0..n_vars : DOMAIN results[i].model = 1..k

\* both strategies returned a model of the same formula: the brute-force one
\* total, the backtracking one on a proper, non-empty prefix of 1..n_vars
ModelKeysWitness ==
    /\ \E i \in SatResults \cap Returned("bruteforce") :
           DOMAIN results[i].model = 1..n_vars
    /\ \E i \in SatResults \cap Returned("backtracking") :
           \E k \in 1..(n_vars - 1) : DOMAIN results[i].model = 1..k

\* C6 (unsatisfiable verdict carries an empty model): whenever either strategy
\* returns satisfiable = false the returned model is the empty dict, whatever
\* the local A held.
UnsatModelEmpty ==
    WellFormed =>
        \A i \in 1..Len(results) :
            ~results[i].satisfiable => results[i].model = EmptyDict

\* sat_bruteforce has just returned unsatisfiable while its local A still
\* holds the last assignment it tried, and sat_backtracking did so before
UnsatModelEmptyWitness ==
    /\ pc = "idle"
    /\ Len(results) = 2
    /\ results[1].method = "backtracking"
    /\ results[2].method = "bruteforce"
    /\ ~results[1].satisfiable
    /\ ~results[2].satisfiable
    /\ A # EmptyDict

HasEmptyClause ==
    \E i \in 1..Len(clauses) : clauses[i] = << >>

\* C7 (empty-clause forcing): if the clause list holds a clause with zero
\* literals, every verdict either strategy returns is satisfiable = false.
EmptyClauseForcing ==
    (WellFormed /\ HasEmptyClause) =>
        \A i \in 1..Len(results) : ~results[i].satisfiable

\* both strategies have answered a formula that holds an empty clause next to
\* a clause that can be satisfied
EmptyClauseForcingWitness ==
    /\ HasEmptyClause
    /\ n_vars >= 1
    /\ \E i \in 1..Len(clauses) : clauses[i] # << >>
    /\ Returned("bruteforce") # {}
    /\ Returned("backtracking") # {}

Running ==
    pc # "idle"

NoRevisit ==
    (pc = "dfs") => (A \notin visited)

\* C8 (termination): under FairSpec every call that has started returns, and
\* dfs is never entered twice with the same partial assignment during a call.
Termination ==
    /\ []NoRevisit
    /\ Running ~> (pc = "idle")

\* a backtracking call has returned unsatisfiable after entering dfs at seven
\* assignments, and a brute-force call after trying every total assignment
TerminationWitness ==
    /\ pc = "idle"
    /\ Len(results) = 2
    /\ results[1].method = "bruteforce"
    /\ results[2].method = "backtracking"
    /\ idx > ProductLen(n_vars)
    /\ Cardinality(visited) >= 7

AtCallEntry ==
    /\ pc = "dfs"
    /\ Len(stack) = 1
    /\ Top.branch = "none"

\* C9 (idempotence): two calls of the same strategy on the same solver object
\* and formula return the same flag and the same model, and a call of
\* sat_backtracking starts its search from A = {} and solved_model = {}.
Idempotence ==
    /\ \A i, j \in 1..Len(results) :
           results[i].method = results[j].method =>
               /\ results[i].satisfiable = results[j].satisfiable
               /\ results[i].model = results[j].model
    /\ (AtCallEntry /\ visited = {}) =>
           (A = EmptyDict /\ solved_model = EmptyDict /\ Top.entry = EmptyDict)

\* the same strategy has returned twice, with a model that assigns something
IdempotenceWitness ==
    /\ Len(results) = 2
    /\ results[1].method = results[2].method
    /\ results[2].satisfiable
    /\ results[2].model # EmptyDict
    /\ Len(clauses) >= 2

TrivialFormula ==
    n_vars = 0 /\ clauses = << >>

\* C10 (trivial satisfiability): with n_vars = 0 and no clauses every verdict
\* either strategy returns is (true, {}).
TrivialSat ==
    TrivialFormula =>
        \A i \in 1..Len(results) :
            results[i].satisfiable /\ results[i].model = EmptyDict

TrivialSatWitness ==
    /\ TrivialFormula
    /\ Returned("bruteforce") # {}
    /\ Returned("backtracking") # {}

UnitSat ==
    n_vars = 1 /\ clauses = << << 1 >> >>

UnitUnsat ==
    n_vars = 1 /\ clauses = << << 1 >>, << -1 >> >>

\* C11 (single-literal unit cases): with n_vars = 1, every verdict either
\* strategy returns on clauses [[1]] is (true, {1: True}) and every verdict on
\* clauses [[1],[-1]] is (false, {}).
UnitCases ==
    \A i \in 1..Len(results) :
        /\ UnitSat =>
               (results[i].satisfiable /\ results[i].model = << TRUE >>)
        /\ UnitUnsat =>
               (~results[i].satisfiable /\ results[i].model = EmptyDict)

\* both strategies have answered [[1],[-1]]
UnitCasesWitness ==
    /\ UnitUnsat
    /\ Returned("bruteforce") # {}
    /\ Returned("backtracking") # {}

\* both strategies have answered [[1]]
UnitSatReached ==
    /\ UnitSat
    /\ Returned("bruteforce") # {}
    /\ Returned("backtracking") # {}

-----------------------------------------------------------------------------
\* Returns of dfs invocations, read off a step of the model.

\* this step is the return of a dfs invocation that branched on a variable
BranchingReturn ==
    /\ pc = "ret"
    /\ stack # << >>
    /\ Top.branch # "none"
    /\ stack' = Pop(stack)

\* this step is the return of any dfs invocation
DfsReturn ==
    /\ pc \in {"dfs", "ret"}
    /\ stack # << >>
    /\ stack' = Pop(stack)

\* a dfs invocation entered with the current A has branched and has just
\* returned failure: both assignments to its variable have been entered
JustBacktracked ==
    /\ pc = "ret"
    /\ ~retval
    /\ LET v == pick_unassigned(n_vars, A)
       IN  /\ v # 0
           /\ DictSet(A, v, TRUE) \in visited
           /\ DictSet(A, v, FALSE) \in visited

\* C12 (restore on every exit path) as claimed: every dfs invocation that
\* branched on a variable returns with A exactly as it was on entry, on
\* failure and on success.
RestoreOnEveryExit ==
    [][BranchingReturn => A' = Top.entry]_vars

\* C12 as amended: a dfs invocation that branched on a variable returns
\* failure with A exactly as it was on entry; it returns success with A not
\* restored: A is then the model found (solved_model), which extends the
\* entry assignment and assigns the variable the invocation branched on.
RestoreOnFailure ==
    [][BranchingReturn =>
          /\ ~retval => A' = Top.entry
          /\ retval =>
                 /\ A' = solved_model
                 /\ Extends(A', Top.entry)
                 /\ Top.v \in DOMAIN A'
                 /\ A' # Top.entry]_vars

\* in one call an invocation entered with a non-empty assignment has failed
\* and been undone, and later an invocation that branched has returned success
RestoreOnFailureWitness ==
    /\ pc = "ret"
    /\ retval
    /\ Len(stack) < Cardinality(DOMAIN A)
    /\ \E P \in visited :
           /\ P # EmptyDict
           /\ ~Extends(A, P)
           /\ LET v == pick_unassigned(n_vars, P)
              IN  /\ v # 0
                  /\ DictSet(P, v, TRUE) \in visited
                  /\ DictSet(P, v, FALSE) \in visited

\* the variables the dfs invocations in progress have branched on
BranchedVars ==
    { stack[i].v : i \in { j \in 1..Len(stack) : stack[j].branch # "none" } }

\* this step of sat_backtracking's search removes a key from A
Removal ==
    /\ pc \in {"dfs", "ret"}
    /\ (DOMAIN A) \ (DOMAIN A') # {}

\* C13 (LIFO discipline): a step of the search that removes a key from A
\* removes exactly the variable v of the innermost invocation that branched,
\* after the dfs calls for A[v] = True and A[v] = False have both been entered
\* and the last of them has returned False; at that moment the keys of A are
\* exactly the variables of the invocations in progress, v being the one
\* assigned last, so every variable assigned after v is already gone.
LifoDiscipline ==
    [][Removal =>
          /\ stack # << >>
          /\ Top.branch = "second"
          /\ ~retval
          /\ (DOMAIN A) \ (DOMAIN A') = {Top.v}
          /\ DictSet(Top.entry, Top.v, TRUE) \in visited
          /\ DictSet(Top.entry, Top.v, FALSE) \in visited
          /\ DOMAIN A = BranchedVars
          /\ \A i \in 1..(Len(stack) - 1) : stack[i].v \in DOMAIN Top.entry
          /\ Top.v \notin DOMAIN Top.entry
          /\ A' = Top.entry]_vars

\* a variable has just been removed while an earlier one is still assigned
LifoDisciplineWitness ==
    /\ JustBacktracked
    /\ A # EmptyDict
    /\ stack # << >>

\* some clause of the formula is clause_impossible under D
SomeClauseImpossible(D) ==
    \E i \in 1..Len(clauses) : clause_impossible(clauses[i], D)

\* C14 (immediate pruning): when dfs is entered with an assignment under which
\* some clause is clause_impossible, its next step is the return of False,
\* with A, solved_model and the callers' frames unchanged and no variable
\* selected; the node is not classified "yes".
ImmediatePruning ==
    [][(pc = "dfs" /\ SomeClauseImpossible(A)) =>
          /\ pc' = "ret"
          /\ retval' = FALSE
          /\ A' = A
          /\ solved_model' = solved_model
          /\ Top.v = 0
          /\ stack' = Pop(stack)
          /\ tri_state(clauses, A) = "no"]_vars

\* dfs has just returned False from a node below the root at which a clause
\* is impossible while another clause is already satisfied
ImmediatePruningWitness ==
    /\ pc = "ret"
    /\ ~retval
    /\ A # EmptyDict
    /\ A \in visited
    /\ SomeClauseImpossible(A)
    /\ \E i \in 1..Len(clauses) : clause_satisfied(clauses[i], A)
    /\ stack # << >>
    /\ Top.branch = "first"

\* C15 (defensive branch unreachable): on a well-formed formula, whenever dfs
\* is at a node that tri_state classifies "maybe", some variable of 1..n_vars
\* is unassigned and pick_unassigned does not return 0.
DefensiveUnreachable ==
    (WellFormed /\ pc = "dfs" /\ tri_state(clauses, A) = "maybe") =>
        /\ (1..n_vars) \ (DOMAIN A) # {}
        /\ pick_unassigned(n_vars, A) # 0

\* dfs is at a "maybe" node with a single variable left to assign
DefensiveUnreachableWitness ==
    /\ pc = "dfs"
    /\ tri_state(clauses, A) = "maybe"
    /\ n_vars >= 2
    /\ Cardinality(DOMAIN A) = n_vars - 1

\* some assignment to 1..n_vars that extends D makes a literal of clause true
CanBeSatisfied(clause, D) ==
    \E T \in TotalAssignments :
        /\ Extends(T, D)
        /\ \E j \in 1..Len(clause) : Holds(clause[j], T)

\* C16 (clause_impossible matches its semantic definition): under
\* ImpossibleSpec, for every clause of non-zero literals and every dict A,
\* clause_impossible(clause, A) returns True exactly when no assignment that
\* extends A makes a literal of the clause true; it returns True for the
\* empty clause under every A.
ImpossibleMeaning ==
    (pc = "helper_done") =>
        /\ retval = ~CanBeSatisfied(clauses[1], A)
        /\ (clauses[1] = << >>) => retval

\* the helper has returned True for a clause that repeats a literal, under a
\* dict whose keys are not a prefix of 1..n_vars
ImpossibleMeaningWitness ==
    /\ pc = "helper_done"
    /\ retval
    /\ Len(clauses[1]) >= 2
    /\ clauses[1][1] = clauses[1][2]
    /\ 1 \notin DOMAIN A
    /\ A # EmptyDict

\* the helper has returned False for a clause that holds a variable in both
\* polarities, all of its variables assigned
ImpossibleBothPolarities ==
    /\ pc = "helper_done"
    /\ ~retval
    /\ \E j, k \in 1..Len(clauses[1]) : clauses[1][j] = -clauses[1][k]
    /\ \A j \in 1..Len(clauses[1]) : abs(clauses[1][j]) \in DOMAIN A

\* no total assignment over 1..n_vars that extends P satisfies every clause
NoModelExtends(P) ==
    \A T \in TotalAssignments : Extends(T, P) => ~Satisfies(T)

\* C17 (a failed subtree holds no solution): on a well-formed formula, when a
\* dfs invocation entered with the partial assignment P returns False, no
\* total assignment over 1..n_vars that extends P satisfies every clause.
FailedSubtreeEmpty ==
    [][(WellFormed /\ DfsReturn /\ ~retval') => NoModelExtends(Top.entry)]_vars

\* on a satisfiable formula an invocation entered with a non-empty assignment
\* has branched, failed on both values and returned False
FailedSubtreeEmptyWitness ==
    /\ Satisfiable
    /\ JustBacktracked
    /\ A # EmptyDict
    /\ Cardinality(DOMAIN A) + 2 <= n_vars

\* the keys of D are 1..k
IsPrefix(D, k) ==
    DOMAIN D = 1..k

\* C18 (prefix-shaped assignment): from the call of sat_backtracking on, the
\* keys of A are exactly 1..k for some 0 <= k <= n_vars; at a node classified
\* "maybe" the variable pick_unassigned chooses is k + 1; and the key set of
\* every model sat_backtracking returns is such a prefix.
PrefixShaped ==
    (WellFormed /\ method = "backtracking") =>
        /\ \E k \in 0..n_vars :
               /\ IsPrefix(A, k)
               /\ (pc = "dfs" /\ tri_state(clauses, A) = "maybe") =>
                      pick_unassigned(n_vars, A) = k + 1
        /\ \A i \in Returned("backtracking") :
               \E k \in 0..n_vars : IsPrefix(results[i].model, k)

\* dfs is about to branch on variable 3 with 1 and 2 assigned, in a second
\* call that follows a sat_backtracking call which returned a model
PrefixShapedWitness ==
    /\ pc = "dfs"
    /\ IsPrefix(A, 2)
    /\ tri_state(clauses, A) = "maybe"
    /\ pick_unassigned(n_vars, A) = 3
    /\ SatResults \cap Returned("backtracking") # {}

====
